---- MODULE Spec2Model ----
(***************************************************************************)
(* Model of generators/app/index.js: the yeoman generator that fetches a   *)
(* Spring Boot skeleton, scaffolds a Vite/React frontend, patches the      *)
(* backend pom.xml with four regular-expression replacements and runs      *)
(* Maven.                                                                  *)
(*                                                                         *)
(* A document is the text of pom.xml as a sequence of tokens: a tag, a     *)
(* piece of character data, or the line terminator NL.  A regular          *)
(* expression `.` matches every token but NL, so `.*` never leaves the     *)
(* line it started on and, being greedy, runs to the LAST closing tag of   *)
(* that line.  Indentation is not represented.                             *)
(***************************************************************************)
EXTENDS Integers, Sequences, FiniteSets, TLC

VARIABLES pc, answers, zip, skeleton, diskPom, backendPom, started, outcome,
          pomReads, pomWrites, merges

vars == <<pc, answers, zip, skeleton, diskPom, backendPom, started, outcome,
          pomReads, pomWrites, merges>>

(* How many times in a row the descriptor merge is applied in MergeSpec. *)
MaxMerges == 2

NL == "\n"
ParentId == "spring-boot-starter-parent"
Absent == <<"(no file)">>
NoAnswers == [artifactId |-> "", packaging |-> "", javaVersion |-> ""]

(***************************************************************************)
(* Sequence helpers.                                                       *)
(***************************************************************************)
Min(S) == CHOOSE x \in S : \A y \in S : x <= y
Max(S) == CHOOSE x \in S : \A y \in S : x >= y

Positions(doc, tok) == {i \in DOMAIN doc : doc[i] = tok}
Includes(doc, tok) == Positions(doc, tok) # {}
Count(doc, tok) == Cardinality(Positions(doc, tok))

RECURSIVE Flatten(_)
Flatten(ss) == IF ss = <<>> THEN <<>> ELSE Head(ss) \o Flatten(Tail(ss))

RECURSIVE Join(_)
Join(ss) ==
  IF ss = <<>> THEN <<>>
  ELSE IF Len(ss) = 1 THEN Head(ss)
  ELSE Head(ss) \o <<NL>> \o Join(Tail(ss))

(***************************************************************************)
(* String.prototype.replace with a regular expression without the g flag:  *)
(* only the leftmost match is replaced, and a document without a match is  *)
(* returned unchanged.                                                     *)
(***************************************************************************)
SameLine(doc, i, j) == \A k \in i..j : doc[k] # NL

(* the closing tags that `open .* close` can end on when it starts at i *)
Closers(doc, i, close) ==
  {j \in Positions(doc, close) : j > i /\ SameLine(doc, i, j)}

(* starts of a match of  open (?!forbid) .* close ; forbid = "" is no lookahead *)
MatchStarts(doc, open, forbid, close) ==
  {i \in Positions(doc, open) :
     /\ ~(forbid # "" /\ i < Len(doc) /\ doc[i + 1] = forbid)
     /\ Closers(doc, i, close) # {}}

ReplaceSpan(doc, i, j, repl) ==
  SubSeq(doc, 1, i - 1) \o repl \o SubSeq(doc, j + 1, Len(doc))

(* doc.replace(/open(?!forbid).*close/, repl) *)
ReplaceElement(doc, open, forbid, close, repl) ==
  LET S == MatchStarts(doc, open, forbid, close) IN
  IF S = {} THEN doc
  ELSE LET i == Min(S)
           j == Max(Closers(doc, i, close))
       IN ReplaceSpan(doc, i, j, repl)

(* doc.replace(/(open.*close)/, "$1" + tail) *)
InsertAfterElement(doc, open, close, tail) ==
  LET S == MatchStarts(doc, open, "", close) IN
  IF S = {} THEN doc
  ELSE LET i == Min(S)
           j == Max(Closers(doc, i, close))
       IN SubSeq(doc, 1, j) \o tail \o SubSeq(doc, j + 1, Len(doc))

(* doc.replace(/tag/, repl) *)
ReplaceTag(doc, tag, repl) ==
  IF ~Includes(doc, tag) THEN doc
  ELSE LET i == Min(Positions(doc, tag)) IN ReplaceSpan(doc, i, i, repl)

(***************************************************************************)
(* The four transformations of the backend pom.xml in writing().           *)
(***************************************************************************)
RenameArtifactId(doc, a) ==
  ReplaceElement(doc, "<artifactId>", ParentId, "</artifactId>",
                 <<"<artifactId>", a.artifactId, "-backend", "</artifactId>">>)

SetPackaging(doc, a) ==
  IF Includes(doc, "<packaging>")
  THEN ReplaceElement(doc, "<packaging>", "", "</packaging>",
                      <<"<packaging>", a.packaging, "</packaging>">>)
  ELSE InsertAfterElement(doc, "<modelVersion>", "</modelVersion>",
                          <<NL, "<packaging>", a.packaging, "</packaging>">>)

SetJavaVersion(doc, a) ==
  IF Includes(doc, "<java.version>")
  THEN ReplaceElement(doc, "<java.version>", "", "</java.version>",
                      <<"<java.version>", a.javaVersion, "</java.version>">>)
  ELSE ReplaceTag(doc, "<parent>",
                  <<"<properties>", NL,
                    "<java.version>", a.javaVersion, "</java.version>", NL,
                    "</properties>", NL,
                    "<parent>">>)

pluginSnippet(a) ==
  Flatten(<<
    <<NL>>,
    <<"<plugin>", NL>>,
    <<"<artifactId>", "maven-resources-plugin", "</artifactId>", NL>>,
    <<"<executions>", NL>>,
    <<"<execution>", NL>>,
    <<"<id>", "copy-frontend", "</id>", NL>>,
    <<"<phase>", "process-resources", "</phase>", NL>>,
    <<"<goals>", NL>>,
    <<"<goal>", "copy-resources", "</goal>", NL>>,
    <<"</goals>", NL>>,
    <<"<configuration>", NL>>,
    <<"<outputDirectory>", "${project.build.directory}/classes/static",
      "</outputDirectory>", NL>>,
    <<"<resources>", NL>>,
    <<"<resource>", NL>>,
    <<"<directory>", "${project.parent.basedir}/", a.artifactId, "-frontend",
      "/dist", "</directory>", NL>>,
    <<"<includes>", NL>>,
    <<"<include>", "**/*", "</include>", NL>>,
    <<"</includes>", NL>>,
    <<"</resource>", NL>>,
    <<"</resources>", NL>>,
    <<"</configuration>", NL>>,
    <<"</execution>", NL>>,
    <<"</executions>", NL>>,
    <<"</plugin>", NL>> >>)

InjectPlugin(doc, a) ==
  IF Includes(doc, "<plugins>")
  THEN ReplaceTag(doc, "<plugins>", <<"<plugins>">> \o pluginSnippet(a))
  ELSE ReplaceTag(doc, "<build>",
                  <<"<build>", NL, "<plugins>">> \o pluginSnippet(a)
                    \o <<"</plugins>">>)

(* the whole descriptor merge: the four replacements in the order of the code *)
Merge(doc, a) ==
  InjectPlugin(SetJavaVersion(SetPackaging(RenameArtifactId(doc, a), a), a), a)

(***************************************************************************)
(* The descriptors the skeleton archive may hold.  The element order of a  *)
(* POM is free and so is its line layout: "pretty" puts every element on a *)
(* line of its own, "oneline" is the minified document, "split" puts the   *)
(* tags of an element and its character data on separate lines.           *)
(***************************************************************************)
Layouts == {"pretty", "oneline", "split"}

Shapes ==
  [mv : BOOLEAN, par : BOOLEAN, pid : {"none", "demo", "parent-x"},
   pkg : BOOLEAN, jv : BOOLEAN, dep : BOOLEAN,
   build : {"none", "build", "plugins"},
   parentFirst : BOOLEAN, layout : Layouts]

Opt(b, items) == IF b THEN items ELSE <<>>

Items(s) ==
  LET mv  == Opt(s.mv, << <<"<modelVersion>", "4.0.0", "</modelVersion>">> >>)
      par == Opt(s.par,
               << <<"<parent>">>,
                  <<"<artifactId>", ParentId, "</artifactId>">>,
                  <<"</parent>">> >>)
      pid == IF s.pid = "demo"
               THEN << <<"<artifactId>", "demo", "</artifactId>">> >>
             ELSE IF s.pid = "parent-x"
               THEN << <<"<artifactId>", ParentId, "-x", "</artifactId>">> >>
             ELSE <<>>
      pkg == Opt(s.pkg, << <<"<packaging>", "jar", "</packaging>">> >>)
      jv  == Opt(s.jv,
               << <<"<properties>">>,
                  <<"<java.version>", "11", "</java.version>">>,
                  <<"</properties>">> >>)
      dep == Opt(s.dep,
               << <<"<dependency>">>,
                  <<"<artifactId>", "spring-boot-starter-web", "</artifactId>">>,
                  <<"</dependency>">> >>)
      bld == IF s.build = "plugins"
               THEN << <<"<build>">>, <<"<plugins>">>, <<"<plugin>">>,
                       <<"<artifactId>", "spring-boot-maven-plugin",
                         "</artifactId>">>,
                       <<"</plugin>">>, <<"</plugins>">>, <<"</build>">> >>
             ELSE IF s.build = "build"
               THEN << <<"<build>">>, <<"</build>">> >>
             ELSE <<>>
  IN << <<"<project>">> >> \o mv
       \o (IF s.parentFirst THEN par \o pid \o pkg ELSE pid \o pkg \o par)
       \o jv \o dep \o bld \o << <<"</project>">> >>

SplitItem(it) ==
  IF Len(it) >= 3
  THEN <<it[1], NL>> \o SubSeq(it, 2, Len(it) - 1) \o <<NL, it[Len(it)]>>
  ELSE it

Render(items, layout) ==
  IF layout = "oneline" THEN Flatten(items)
  ELSE IF layout = "split" THEN Join([k \in DOMAIN items |-> SplitItem(items[k])])
  ELSE Join(items)

Docs == {Render(Items(s), s.layout) : s \in Shapes}

Configs ==
  [artifactId : {"shop"}, packaging : {"jar", "war"}, javaVersion : {"17", "20"}]

(***************************************************************************)
(* The run: prompting(), writing() and install() in the order of the run   *)
(* loop.  execSync throws when the command exits with a non-zero status    *)
(* and an awaited spawnCommand rejects; either ends the run ("failed").    *)
(***************************************************************************)
Order == <<"fetch", "extract", "scaffold", "buildFrontend", "parentPom",
           "merge", "mvn">>
Stages == {Order[k] : k \in DOMAIN Order}
StageIndex(s) == CHOOSE k \in DOMAIN Order : Order[k] = s

Init ==
  /\ pc = "prompting"
  /\ answers = NoAnswers
  /\ zip = "none"
  /\ skeleton = Absent
  /\ diskPom = Absent
  /\ backendPom = Absent
  /\ started = {}
  /\ outcome = [s \in Stages |-> "pending"]
  /\ pomReads = 0
  /\ pomWrites = 0
  /\ merges = 0

Fail == pc' = "failed"

Prompting ==
  /\ pc = "prompting"
  /\ \/ /\ \E a \in Configs : answers' = a
        /\ pc' = "mkdir"
     \/ /\ Fail
        /\ UNCHANGED answers
  /\ UNCHANGED <<zip, skeleton, diskPom, backendPom, started, outcome,
                 pomReads, pomWrites, merges>>

MakeRootFolder ==
  /\ pc = "mkdir"
  /\ \/ pc' = "curl"
     \/ Fail
  /\ UNCHANGED <<answers, zip, skeleton, diskPom, backendPom, started, outcome,
                 pomReads, pomWrites, merges>>

(* curl -L -o backend.zip <url>, without --fail: an HTTP error response is *)
(* saved to backend.zip and curl exits 0, so execSync returns normally.    *)
FetchBackend ==
  /\ pc = "curl"
  /\ started' = started \cup {"fetch"}
  /\ \/ /\ zip' = "archive"
        /\ outcome' = [outcome EXCEPT !["fetch"] = "ok"]
        /\ pc' = "unzip"
     \/ /\ zip' = "error_body"
        /\ outcome' = [outcome EXCEPT !["fetch"] = "failed"]
        /\ pc' = "unzip"
     \/ /\ zip' = "none"
        /\ outcome' = [outcome EXCEPT !["fetch"] = "failed"]
        /\ Fail
  /\ UNCHANGED <<answers, skeleton, diskPom, backendPom, pomReads, pomWrites,
                 merges>>

ExtractBackend ==
  /\ pc = "unzip"
  /\ started' = started \cup {"extract"}
  /\ \/ /\ zip = "archive"
        /\ \E d \in Docs : skeleton' = d /\ diskPom' = d
        /\ pc' = "rm"
        /\ UNCHANGED outcome
     \/ /\ outcome' = [outcome EXCEPT !["extract"] = "failed"]
        /\ Fail
        /\ UNCHANGED <<skeleton, diskPom>>
  /\ UNCHANGED <<answers, zip, backendPom, pomReads, pomWrites, merges>>

RemoveZip ==
  /\ pc = "rm"
  /\ \/ /\ zip' = "none"
        /\ outcome' = [outcome EXCEPT !["extract"] = "ok"]
        /\ pc' = "npm_create"
     \/ /\ outcome' = [outcome EXCEPT !["extract"] = "failed"]
        /\ Fail
        /\ UNCHANGED zip
  /\ UNCHANGED <<answers, skeleton, diskPom, backendPom, started, pomReads,
                 pomWrites, merges>>

ScaffoldFrontend ==
  /\ pc = "npm_create"
  /\ started' = started \cup {"scaffold"}
  /\ \/ /\ outcome' = [outcome EXCEPT !["scaffold"] = "ok"]
        /\ pc' = "npm_install"
     \/ /\ outcome' = [outcome EXCEPT !["scaffold"] = "failed"]
        /\ Fail
  /\ UNCHANGED <<answers, zip, skeleton, diskPom, backendPom, pomReads,
                 pomWrites, merges>>

NpmInstall ==
  /\ pc = "npm_install"
  /\ started' = started \cup {"buildFrontend"}
  /\ \/ /\ pc' = "npm_build"
        /\ UNCHANGED outcome
     \/ /\ outcome' = [outcome EXCEPT !["buildFrontend"] = "failed"]
        /\ Fail
  /\ UNCHANGED <<answers, zip, skeleton, diskPom, backendPom, pomReads,
                 pomWrites, merges>>

NpmRunBuild ==
  /\ pc = "npm_build"
  /\ \/ /\ outcome' = [outcome EXCEPT !["buildFrontend"] = "ok"]
        /\ pc' = "copyTpl"
     \/ /\ outcome' = [outcome EXCEPT !["buildFrontend"] = "failed"]
        /\ Fail
  /\ UNCHANGED <<answers, zip, skeleton, diskPom, backendPom, started,
                 pomReads, pomWrites, merges>>

WriteParentPom ==
  /\ pc = "copyTpl"
  /\ started' = started \cup {"parentPom"}
  /\ \/ /\ outcome' = [outcome EXCEPT !["parentPom"] = "ok"]
        /\ pc' = "read"
     \/ /\ outcome' = [outcome EXCEPT !["parentPom"] = "failed"]
        /\ Fail
  /\ UNCHANGED <<answers, zip, skeleton, diskPom, backendPom, pomReads,
                 pomWrites, merges>>

ReadBackendPom ==
  /\ pc = "read"
  /\ started' = started \cup {"merge"}
  /\ backendPom' = diskPom
  /\ pomReads' = pomReads + 1
  /\ pc' = "rename"
  /\ UNCHANGED <<answers, zip, skeleton, diskPom, outcome, pomWrites, merges>>

UpdateArtifactId ==
  /\ pc = "rename"
  /\ backendPom' = RenameArtifactId(backendPom, answers)
  /\ pc' = "packaging"
  /\ UNCHANGED <<answers, zip, skeleton, diskPom, started, outcome, pomReads,
                 pomWrites, merges>>

UpdatePackaging ==
  /\ pc = "packaging"
  /\ backendPom' = SetPackaging(backendPom, answers)
  /\ pc' = "java"
  /\ UNCHANGED <<answers, zip, skeleton, diskPom, started, outcome, pomReads,
                 pomWrites, merges>>

(* UpdateJavaVersion as it would be if every transformation saved its result *)
UpdateJavaVersionSaving ==
  /\ pc = "java"
  /\ backendPom' = SetJavaVersion(backendPom, answers)
  /\ diskPom' = backendPom'
  /\ pomWrites' = pomWrites + 1
  /\ pc' = "inject"
  /\ UNCHANGED <<answers, zip, skeleton, started, outcome, pomReads, merges>>

UpdateJavaVersion ==
  /\ pc = "java"
  /\ backendPom' = SetJavaVersion(backendPom, answers)
  /\ pc' = "inject"
  /\ UNCHANGED <<answers, zip, skeleton, diskPom, started, outcome, pomReads,
                 pomWrites, merges>>

InjectResourcesPlugin ==
  /\ pc = "inject"
  /\ backendPom' = InjectPlugin(backendPom, answers)
  /\ merges' = merges + 1
  /\ pc' = "write"
  /\ UNCHANGED <<answers, zip, skeleton, diskPom, started, outcome, pomReads,
                 pomWrites>>

WriteBackendPom ==
  /\ pc = "write"
  /\ \/ /\ diskPom' = backendPom
        /\ pomWrites' = pomWrites + 1
        /\ outcome' = [outcome EXCEPT !["merge"] = "ok"]
        /\ pc' = "install"
     \/ /\ outcome' = [outcome EXCEPT !["merge"] = "failed"]
        /\ Fail
        /\ UNCHANGED <<diskPom, pomWrites>>
  /\ UNCHANGED <<answers, zip, skeleton, backendPom, started, pomReads, merges>>

Install ==
  /\ pc = "install"
  /\ started' = started \cup {"mvn"}
  /\ \/ /\ outcome' = [outcome EXCEPT !["mvn"] = "ok"]
        /\ pc' = "done"
     \/ /\ outcome' = [outcome EXCEPT !["mvn"] = "failed"]
        /\ Fail
  /\ UNCHANGED <<answers, zip, skeleton, diskPom, backendPom, pomReads,
                 pomWrites, merges>>

Next ==
  \/ Prompting
  \/ MakeRootFolder
  \/ FetchBackend
  \/ ExtractBackend
  \/ RemoveZip
  \/ ScaffoldFrontend
  \/ NpmInstall
  \/ NpmRunBuild
  \/ WriteParentPom
  \/ ReadBackendPom
  \/ UpdateArtifactId
  \/ UpdatePackaging
  \/ UpdateJavaVersion
  \/ InjectResourcesPlugin
  \/ WriteBackendPom
  \/ Install

Spec == Init /\ [][Next]_vars

(***************************************************************************)
(* The descriptor merge as a function of the document, applied repeatedly  *)
(* to a descriptor with one configuration.                                 *)
(***************************************************************************)
MergeInit ==
  /\ pc = "merge"
  /\ answers \in Configs
  /\ zip = "none"
  /\ skeleton \in Docs
  /\ diskPom = skeleton
  /\ backendPom = skeleton
  /\ started = {}
  /\ outcome = [s \in Stages |-> "pending"]
  /\ pomReads = 0
  /\ pomWrites = 0
  /\ merges = 0

ApplyMerge ==
  /\ pc = "merge"
  /\ merges < MaxMerges
  /\ backendPom' = Merge(backendPom, answers)
  /\ merges' = merges + 1
  /\ UNCHANGED <<pc, answers, zip, skeleton, diskPom, started, outcome,
                 pomReads, pomWrites>>

MergeNext == ApplyMerge

MergeSpec == MergeInit /\ [][MergeNext]_vars

(***************************************************************************)
(* Reading a document: the elements with a given tag and their character   *)
(* data (line terminators between the tags are not part of the value).     *)
(***************************************************************************)
Indices(doc, tok) ==
  SelectSeq([k \in 1..Len(doc) |-> k], LAMBDA k : doc[k] = tok)

ValueAt(doc, i, close) ==
  LET after == {j \in Positions(doc, close) : j > i}
      j     == IF after = {} THEN Len(doc) + 1 ELSE Min(after)
  IN SelectSeq(SubSeq(doc, i + 1, j - 1), LAMBDA t : t # NL)

Values(doc, open, close) ==
  LET idx == Indices(doc, open)
  IN [n \in DOMAIN idx |-> ValueAt(doc, idx[n], close)]

ArtifactIds(doc) == Values(doc, "<artifactId>", "</artifactId>")
Packagings(doc) == Values(doc, "<packaging>", "</packaging>")
JavaVersions(doc) == Values(doc, "<java.version>", "</java.version>")

Range(f) == {f[x] : x \in DOMAIN f}

(* the last token before position i that is not a line terminator *)
PrevToken(doc, i) ==
  LET before == {k \in 1..(i - 1) : doc[k] # NL}
  IN IF before = {} THEN "" ELSE doc[Max(before)]

ContainerTags ==
  { <<"<parent>", "</parent>">>, <<"<dependency>", "</dependency>">>,
    <<"<plugin>", "</plugin>">> }

(* position i is a child of <project>, not of a parent, dependency or plugin *)
TopLevel(doc, i) ==
  \A c \in ContainerTags :
    Cardinality({k \in Positions(doc, c[1]) : k < i})
      = Cardinality({k \in Positions(doc, c[2]) : k < i})

BackendId == <<answers.artifactId, "-backend">>
FrontendDist ==
  <<"${project.parent.basedir}/", answers.artifactId, "-frontend", "/dist">>
PropertiesBlock ==
  <<"<properties>", NL, "<java.version>", answers.javaVersion,
    "</java.version>", NL, "</properties>", NL>>

(***************************************************************************)
(* C1.  Merging twice with one configuration a document that has a         *)
(* <plugins> container or a <build> element leaves exactly one             *)
(* copy-frontend execution in the document.                                *)
(***************************************************************************)
C1_MergeTwiceOneCopyFrontend ==
  (/\ merges = 2
   /\ Includes(skeleton, "<plugins>") \/ Includes(skeleton, "<build>"))
  => Count(backendPom, "copy-frontend") = 1

(***************************************************************************)
(* C2.  A stage is started only after every earlier stage has completed    *)
(* successfully, and Maven is invoked only once the merged descriptor has  *)
(* been written.                                                           *)
(***************************************************************************)
C2_StagesGated ==
  /\ \A s \in started : \A e \in Stages :
       StageIndex(e) < StageIndex(s) => outcome[e] = "ok"
  /\ "mvn" \in started => pomWrites = 1 /\ diskPom = backendPom

(* What the exit statuses do guarantee: a later step is started after a     *)
(* failed one only when the failed one is the fetch that saved an error    *)
(* body, and then only the extraction is started.                          *)
ExitStatusGated ==
  \A s \in started : \A e \in Stages :
    (StageIndex(e) < StageIndex(s) /\ outcome[e] # "ok")
      => e = "fetch" /\ s = "extract" /\ zip = "error_body"

MavenOnlyAfterWrite ==
  "mvn" \in started => pomWrites = 1 /\ diskPom = backendPom

(***************************************************************************)
(* C3.  When the descriptor has no <artifactId> element other than the     *)
(* parent's, the merge fails: the descriptor is not written and Maven is   *)
(* not invoked.                                                            *)
(***************************************************************************)
NoProjectId(doc) == \A v \in Range(ArtifactIds(doc)) : v = <<ParentId>>

C3_MalformedDescriptorAborts ==
  (skeleton # Absent /\ NoProjectId(skeleton))
  => /\ pomWrites = 0
     /\ outcome["merge"] # "ok"
     /\ "mvn" \notin started

(***************************************************************************)
(* C4.  The merged document has the parent's <artifactId> element with the *)
(* value spring-boot-starter-parent exactly as often as the input has it.  *)
(***************************************************************************)
ParentElements(doc) ==
  {n \in DOMAIN ArtifactIds(doc) : ArtifactIds(doc)[n] = <<ParentId>>}

C4_ParentIdKept ==
  merges = 1
  => Cardinality(ParentElements(backendPom))
       = Cardinality(ParentElements(skeleton))

(***************************************************************************)
(* C5.  After the rename step the first top-level <artifactId> whose value *)
(* is not the parent constant has the value <artifactId>-backend and every *)
(* other <artifactId> element has the value it had in the input.           *)
(***************************************************************************)
RenameCandidates(doc) ==
  LET idx == Indices(doc, "<artifactId>")
  IN {n \in DOMAIN idx :
        TopLevel(doc, idx[n]) /\ ArtifactIds(doc)[n] # <<ParentId>>}

C5_RenameExactlyOne ==
  pc = "packaging"
  => LET c == RenameCandidates(skeleton) IN
     IF c = {} THEN ArtifactIds(backendPom) = ArtifactIds(skeleton)
     ELSE ArtifactIds(backendPom)
            = [ArtifactIds(skeleton) EXCEPT ![Min(c)] = BackendId]

(***************************************************************************)
(* C6.  The merged document always has exactly one copy-frontend step,     *)
(* referencing <artifactId>-frontend/dist; when the input has a <plugins>  *)
(* container the new plugin is its first child.                            *)
(***************************************************************************)
FirstChildIsCopyPlugin(doc) ==
  LET p == Min(Positions(doc, "<plugins>"))
  IN /\ p + 4 <= Len(doc)
     /\ SubSeq(doc, p + 1, p + 4)
          = <<NL, "<plugin>", NL, "<artifactId>">>
     /\ ValueAt(doc, p + 4, "</artifactId>") = <<"maven-resources-plugin">>

C6_CopyFrontendInstalled ==
  merges = 1
  => /\ Count(backendPom, "copy-frontend") = 1
     /\ Values(backendPom, "<directory>", "</directory>") = << FrontendDist >>
     /\ Includes(backendPom, "<build>")
     /\ Includes(backendPom, "<plugins>")
     /\ FirstChildIsCopyPlugin(backendPom)

(***************************************************************************)
(* C7.  A document without a packaging element is merged into a document   *)
(* with exactly one packaging element, holding the configured packaging.   *)
(***************************************************************************)
C7_PackagingInserted ==
  (merges = 1 /\ ~Includes(skeleton, "<packaging>"))
  => Packagings(backendPom) = << <<answers.packaging>> >>

(***************************************************************************)
(* C8.  A document with a packaging element is merged into a document with *)
(* as many packaging elements, at the same place, holding the configured   *)
(* packaging.                                                              *)
(***************************************************************************)
C8_PackagingOverwrittenInPlace ==
  (merges = 1 /\ Includes(skeleton, "<packaging>"))
  => /\ Len(Packagings(backendPom)) = Len(Packagings(skeleton))
     /\ \A v \in Range(Packagings(backendPom)) : v = <<answers.packaging>>
     /\ \A n \in DOMAIN Indices(backendPom, "<packaging>") :
          PrevToken(backendPom, Indices(backendPom, "<packaging>")[n])
            = PrevToken(skeleton, Indices(skeleton, "<packaging>")[n])

(***************************************************************************)
(* C9.  A document without a java.version property is merged into one with *)
(* one more properties block, placed immediately before <parent> and       *)
(* holding the configured java.version alone; a document with the property *)
(* has it overwritten and gets no block.                                   *)
(***************************************************************************)
BlockBeforeParent(doc) ==
  /\ Includes(doc, "<parent>")
  /\ LET p == Min(Positions(doc, "<parent>"))
     IN /\ p > Len(PropertiesBlock)
        /\ SubSeq(doc, p - Len(PropertiesBlock), p - 1) = PropertiesBlock

C9_JavaVersionSet ==
  merges = 1
  => IF Includes(skeleton, "<java.version>")
     THEN /\ Count(backendPom, "<properties>") = Count(skeleton, "<properties>")
          /\ JavaVersions(backendPom) = << <<answers.javaVersion>> >>
     ELSE /\ Count(backendPom, "<properties>")
               = Count(skeleton, "<properties>") + 1
          /\ JavaVersions(backendPom) = << <<answers.javaVersion>> >>
          /\ BlockBeforeParent(backendPom)

(***************************************************************************)
(* C10.  The descriptor on disk is the extracted skeleton until the single *)
(* write and the fully merged document after it; it is read at most once,  *)
(* written at most once, and Maven runs only against the merged document.  *)
(***************************************************************************)
C10_DescriptorOnDisk ==
  /\ pomReads <= 1
  /\ pomWrites <= 1
  /\ pomWrites = 0 => diskPom = skeleton
  /\ pomWrites = 1 => diskPom = Merge(skeleton, answers)
  /\ pc \in {"install", "done"} => pomReads = 1 /\ pomWrites = 1
  /\ "mvn" \in started => pomWrites = 1 /\ diskPom = Merge(skeleton, answers)

C10_Witness ==
  /\ pc = "done"
  /\ "mvn" \in started
  /\ pomWrites = 1
  /\ diskPom = Merge(skeleton, answers)
  /\ diskPom # skeleton
  /\ Count(diskPom, "copy-frontend") = 1
  /\ ArtifactIds(diskPom) # ArtifactIds(skeleton)

====
